---- MODULE Spec2Model ----
(***************************************************************************)
(* State-machine model of the convex-py bridge (get-convex/convex-py):     *)
(*   - src/src/subscription.rs : PyQuerySubscription and                   *)
(*     PyQuerySetSubscription, a cursor kept in Arc<Mutex<Option<..>>>     *)
(*     that is taken out of the slot for the duration of an await;         *)
(*   - src/src/client/mod.rs   : PyConvexClient, one-shot calls raced      *)
(*     against a signal poller with tokio::select!;                        *)
(*   - src/src/query_result.rs : the FunctionResult / Value marshalling,   *)
(*     value_to_py and py_to_value.                                        *)
(***************************************************************************)
EXTENDS Integers, Sequences, FiniteSets, TLC

VARIABLES
    kind,          \* "query" (PyQuerySubscription) or "set" (PyQuerySetSubscription)
    streamEnds,    \* TRUE: after MaxItems items the stream yields None; FALSE: it stays pending
    slot,          \* the handle's inner Option<cursor>: <<>> is None, <<c>> is Some(c)
    mutex,         \* the parking_lot Mutex around the slot: the set of its holders
    pc,            \* position of the Python caller (Host) and of each anext() future
    held,          \* per process: the cursor it holds in the local query_sub_inner
    got,           \* per process: what the stream's next().await returned
    hostRes,       \* the last call the Python caller made and what it returned
    taskRes,       \* per anext() future: what it resolved to
    sigPending,    \* a Python signal is pending (py.check_signals() would raise)
    unsubscribed,  \* history: unsubscribe() has returned
    closedFromOpen, \* history: unsubscribe() has discarded a cursor found in the slot
    gotAt,         \* per process: the place in the stream of the item in `got` (0: none)
    returned,      \* history: the stream places of the items successful advances returned
    singleConsumer, \* history: no advance was ever started while another was in flight
    cPc,           \* PyConvexClient: "idle", or "wait" while a call sits in block_on
    cFut,          \* the operation future of the call in block_on (Option)
    cSeq,          \* number of client calls made so far
    cHist,         \* history: one record per returned client call
    cAbandoned,    \* history: ids of the operation futures that select! dropped
    rA, rB,        \* two FunctionResults handed to the result conversions
    rOutA, rOutB,  \* what the conversion made of each (Option)
    rVia,          \* which conversion ran: "oneshot", "next", "anext"
    sBatch,        \* a batch handed to the set handle's snapshot code
    sSnap,         \* the snapshot outcome it produced (Option)
    sVia,          \* which advance produced it: "next", "anext"
    mPy,           \* a host value handed to py_to_value
    mVal,          \* a Value handed to value_to_py and back to py_to_value
    mOut,          \* what the conversion returned (Option)
    mVia           \* which conversion ran: "py_to_value", "py_to_rust_to_py", "round_trip"

handleVars == <<kind, streamEnds, slot, mutex, pc, held, got, hostRes,
                taskRes, unsubscribed, closedFromOpen, gotAt, returned,
                singleConsumer>>

bridgeVars == <<cPc, cFut, cSeq, cHist, cAbandoned>>

resultVars == <<rA, rB, rOutA, rOutB, rVia>>

snapVars == <<sBatch, sSnap, sVia>>

marshalVars == <<mPy, mVal, mOut, mVia>>

vars == <<handleVars, sigPending, bridgeVars, resultVars, snapVars, marshalVars>>

----------------------------------------------------------------------------
(* Bounds of the model. *)
MaxItems == 2
MaxTasks == 1
MaxCalls == 2
MaxArrayLen == 1
MaxSubs == 3
IntBits == 6
MantBits == 3

----------------------------------------------------------------------------
(* Option<T> as a sequence of length at most one. *)
None == <<>>
Some(x) == <<x>>
IsSome(o) == Len(o) = 1
IsNone(o) == Len(o) = 0
Unwrap(o) == o[1]

----------------------------------------------------------------------------
(* Python-side values and call outcomes. *)
PyNone == [py |-> "None"]
PyStr(s) == [py |-> "str", s |-> s]
PyDictOf(f) == [py |-> "dict", d |-> f]

PyOk(obj) == [ok |-> TRUE, exc |-> "", msg |-> "", val |-> obj]
PyErr(e, m) == [ok |-> FALSE, exc |-> e, msg |-> m, val |-> PyNone]

StreamRequiresReset == PyErr("StopIteration", "Stream requires reset")
AsyncStreamRequiresReset == PyErr("StopAsyncIteration", "Stream requires reset")
KeyboardInterrupt == PyErr("KeyboardInterrupt", "")
Panic == PyErr("PanicException", "unwrap on None")

----------------------------------------------------------------------------
(* convex::Value and convex::FunctionResult.  A Float64 is written by the  *)
(* integer it equals; a BTreeMap<String, Value> is a function on its keys. *)
VNull == [tag |-> "Null"]
VInt64(i) == [tag |-> "Int64", i64 |-> i]
VFloat64(x) == [tag |-> "Float64", f64 |-> x]
VBoolean(b) == [tag |-> "Boolean", b |-> b]
VString(s) == [tag |-> "String", s |-> s]
VBytes(b) == [tag |-> "Bytes", bytes |-> b]
VArray(a) == [tag |-> "Array", arr |-> a]
VObject(o) == [tag |-> "Object", obj |-> o]

FrValue(v) == [fr |-> "Value", value |-> v]
FrErrorMessage(e) == [fr |-> "ErrorMessage", message |-> e]
FrConvexError(m, d) == [fr |-> "ConvexError", message |-> m, data |-> d]

PyBool(b) == [py |-> "bool", b |-> b]
PyFloat(x) == [py |-> "float", f |-> x]
PyBytes(b) == [py |-> "bytes", bytes |-> b]
PyList(l) == [py |-> "list", items |-> l]
PyTuple(l) == [py |-> "tuple", items |-> l]
PyConvexInt64(i) == [py |-> "ConvexInt64", value |-> i]
PyInt(n) == [py |-> "int", n |-> n]

(* A plausible slip: an Int64 handed to Python as a plain int. *)
RECURSIVE ValueToPyPlainInt(_)
ValueToPyPlainInt(val) ==
    CASE val.tag = "Null" -> PyNone
      [] val.tag = "Int64" -> PyInt(val.i64)
      [] val.tag = "Float64" -> PyFloat(val.f64)
      [] val.tag = "Boolean" -> PyBool(val.b)
      [] val.tag = "String" -> PyStr(val.s)
      [] val.tag = "Bytes" -> PyBytes(val.bytes)
      [] val.tag = "Array" ->
            PyList([i \in DOMAIN val.arr |-> ValueToPyPlainInt(val.arr[i])])
      [] val.tag = "Object" ->
            PyDictOf([k \in DOMAIN val.obj |-> ValueToPyPlainInt(val.obj[k])])

(* value_to_py: one case per Value variant, recursing into Array and Object. *)
RECURSIVE ValueToPy(_)
ValueToPy(val) ==
    CASE val.tag = "Null" -> PyNone
      [] val.tag = "Int64" -> PyConvexInt64(val.i64)
      [] val.tag = "Float64" -> PyFloat(val.f64)
      [] val.tag = "Boolean" -> PyBool(val.b)
      [] val.tag = "String" -> PyStr(val.s)
      [] val.tag = "Bytes" -> PyBytes(val.bytes)
      [] val.tag = "Array" ->
            PyList([i \in DOMAIN val.arr |-> ValueToPy(val.arr[i])])
      [] val.tag = "Object" ->
            PyDictOf([k \in DOMAIN val.obj |-> ValueToPy(val.obj[k])])

(* value_to_py_wrapped: {"type": "value", "value": value_to_py(v)}. *)
ValueToPyWrapped(val) ==
    PyDictOf([type |-> PyStr("value"), value |-> ValueToPy(val)])

(* convex_error_to_py_wrapped: {"type": "convexerror", "message", "data"}. *)
ConvexErrorToPyWrapped(err) ==
    PyDictOf([type |-> PyStr("convexerror"), message |-> PyStr(err.message),
              data |-> ValueToPy(err.data)])

(* A plausible slip (a historical revision did this): the error message is *)
(* coerced into the success channel as a string value.                     *)
FunctionResultToPyResultConflated(result) ==
    CASE result.fr = "Value" -> PyOk(ValueToPyWrapped(result.value))
      [] result.fr = "ErrorMessage" -> PyOk(ValueToPyWrapped(VString(result.message)))
      [] result.fr = "ConvexError" -> PyOk(ConvexErrorToPyWrapped(result))

(* PyConvexClient::function_result_to_py_result. *)
FunctionResultToPyResult(result) ==
    CASE result.fr = "Value" -> PyOk(ValueToPyWrapped(result.value))
      [] result.fr = "ErrorMessage" -> PyErr("Exception", result.message)
      [] result.fr = "ConvexError" -> PyOk(ConvexErrorToPyWrapped(result))

(* PyQuerySubscription::next after block_on: match res.unwrap() { .. }. *)
QueryNextResult(res) ==
    IF IsNone(res) THEN Panic
    ELSE LET result == Unwrap(res) IN
         CASE result.fr = "Value" -> PyOk(ValueToPyWrapped(result.value))
           [] result.fr = "ErrorMessage" -> PyErr("Exception", result.message)
           [] result.fr = "ConvexError" -> PyOk(ConvexErrorToPyWrapped(result))

(* PyQuerySubscription::anext inside with_gil: match res.unwrap() { .. }. *)
QueryAnextResult(res) ==
    IF IsNone(res) THEN Panic
    ELSE LET result == Unwrap(res) IN
         CASE result.fr = "Value" -> PyOk(ValueToPyWrapped(result.value))
           [] result.fr = "ErrorMessage" -> PyErr("Exception", result.message)
           [] result.fr = "ConvexError" -> PyOk(ConvexErrorToPyWrapped(result))

----------------------------------------------------------------------------
(* The set handle's snapshot.  A batch (convex::QueryResults) is a sequence *)
(* whose i-th entry is subscriber i's Option<FunctionResult>.               *)

(* PyDict::set_item: insert or overwrite one key. *)
SetItem(d, k, x) == [j \in (DOMAIN d) \cup {k} |-> IF j = k THEN x ELSE d[j]]

(* PyQuerySetSubscription::next: the value stored for one present result. *)
SetNextEntry(result) ==
    CASE result.fr = "Value" -> ValueToPyWrapped(result.value)
      [] result.fr = "ErrorMessage" -> ValueToPy(VString(result.message))
      [] result.fr = "ConvexError" -> ConvexErrorToPyWrapped(result)

(* PyQuerySetSubscription::anext: the value stored for one present result. *)
SetAnextEntry(result) ==
    CASE result.fr = "Value" -> ValueToPy(result.value)
      [] result.fr = "ErrorMessage" -> ValueToPy(VString(result.message))
      [] result.fr = "ConvexError" ->
            PyTuple(<<ValueToPy(VString(result.message)), ValueToPy(result.data)>>)

(* if function_result.is_none() { continue; } *)
SkipEntry(functionResult) == IsNone(functionResult)

(* A plausible slip: `break` where the code has `continue`. *)
RECURSIVE SetNextLoopBreak(_, _, _)
SetNextLoopBreak(batch, i, pyDict) ==
    IF i > Len(batch) THEN pyDict
    ELSE IF SkipEntry(batch[i]) THEN pyDict
    ELSE SetNextLoopBreak(batch, i + 1, SetItem(pyDict, i, SetNextEntry(Unwrap(batch[i]))))

(* for (sub_id, function_result) in query_results.iter() { .. } of next(). *)
RECURSIVE SetNextLoop(_, _, _)
SetNextLoop(batch, i, pyDict) ==
    IF i > Len(batch) THEN pyDict
    ELSE IF SkipEntry(batch[i]) THEN SetNextLoop(batch, i + 1, pyDict)
    ELSE SetNextLoop(batch, i + 1, SetItem(pyDict, i, SetNextEntry(Unwrap(batch[i]))))

(* for (sub_id, function_result) in query_results.iter() { .. } of anext(). *)
RECURSIVE SetAnextLoop(_, _, _)
SetAnextLoop(batch, i, pyDict) ==
    IF i > Len(batch) THEN pyDict
    ELSE IF SkipEntry(batch[i]) THEN SetAnextLoop(batch, i + 1, pyDict)
    ELSE SetAnextLoop(batch, i + 1, SetItem(pyDict, i, SetAnextEntry(Unwrap(batch[i]))))

(* PyQuerySetSubscription::next after block_on. *)
SetNextResult(res) ==
    IF IsNone(res) THEN Panic
    ELSE PyOk(PyDictOf(SetNextLoop(Unwrap(res), 1, <<>>)))

(* PyQuerySetSubscription::anext inside with_gil. *)
SetAnextResult(res) ==
    IF IsNone(res) THEN Panic
    ELSE PyOk(PyDictOf(SetAnextLoop(Unwrap(res), 1, <<>>)))

----------------------------------------------------------------------------
(* Host-to-Value marshalling (py_to_value) and the args of a one-shot call. *)

(* Result<T, E>. *)
ROk(x) == [ok |-> TRUE, v |-> x]
RErr(e) == [ok |-> FALSE, e |-> e]

(* Host values ValueToPy never builds: a plain int, an object of a class    *)
(* py_to_value does not know, and a dict given by its items in insertion    *)
(* order, each item <<key, value>> (the keys may be any hashable object).   *)
(* PyDictOf(f) is the dict whose keys are the strings of DOMAIN f.          *)
PyObjectOf(cls) == [py |-> "object", cls |-> cls]
PyDictItems(kv) == [py |-> "dict", kv |-> kv]

(* i64: TLC's integers are 32 bits wide, so the model's i64 has IntBits bits. *)
I64Min == -(2 ^ (IntBits - 1))
I64Max == 2 ^ (IntBits - 1) - 1

(* The f64 nearest to a natural number a (ties to even), the significand    *)
(* having MantBits bits; s is the spacing of the floats tried.              *)
RECURSIVE NearestF64(_, _)
NearestF64(a, s) ==
    IF a <= (2 ^ MantBits) * s
    THEN LET q == a \div s
             r == a % s
         IN  IF 2 * r < s THEN q * s
             ELSE IF 2 * r > s THEN (q + 1) * s
             ELSE IF q % 2 = 0 THEN q * s ELSE (q + 1) * s
    ELSE NearestF64(a, 2 * s)

(* A plausible slip: the wrapped integer read through a float. *)
ExtractI64ThroughF64(n) ==
    IF n >= I64Min /\ n <= I64Max
    THEN ROk(IF n >= 0 THEN NearestF64(n, 1) ELSE -NearestF64(-n, 1))
    ELSE RErr("OverflowError")

(* value.extract::<i64>(): OverflowError outside the range of i64. *)
ExtractI64(n) ==
    IF n >= I64Min /\ n <= I64Max THEN ROk(n) ELSE RErr("OverflowError")

(* py_val.extract::<f64>() of an int (or of a bool, which is an int). *)
IntOf(obj) == IF obj.py = "bool" THEN (IF obj.b THEN 1 ELSE 0) ELSE obj.n
ExtractF64(obj) ==
    LET n == IntOf(obj) IN IF n >= 0 THEN NearestF64(n, 1) ELSE -NearestF64(-n, 1)

(* is_instance_of / is_instance: bool is a subclass of int. *)
IsInstanceOf(obj, cls) ==
    IF cls = "int" THEN obj.py \in {"int", "bool"} ELSE obj.py = cls

(* A plausible slip: the integer test placed before the boolean test. *)
CoercionCaseIntFirst(obj) ==
    IF IsInstanceOf(obj, "int") THEN "int"
    ELSE IF IsInstanceOf(obj, "bool") THEN "bool"
    ELSE IF IsInstanceOf(obj, "float") THEN "float"
    ELSE IF IsInstanceOf(obj, "ConvexInt64") THEN "ConvexInt64"
    ELSE IF IsInstanceOf(obj, "str") THEN "str"
    ELSE IF IsInstanceOf(obj, "bytes") THEN "bytes"
    ELSE IF IsInstanceOf(obj, "list") THEN "list"
    ELSE IF IsInstanceOf(obj, "dict") THEN "dict"
    ELSE IF IsInstanceOf(obj, "None") THEN "None"
    ELSE "unmatched"

(* py_to_value: the ordered chain of `if py_val.is_instance_of::<..>()`     *)
(* tests; the first that holds decides the case.                            *)
CoercionCase(obj) ==
    IF IsInstanceOf(obj, "bool") THEN "bool"
    ELSE IF IsInstanceOf(obj, "int") THEN "int"
    ELSE IF IsInstanceOf(obj, "float") THEN "float"
    ELSE IF IsInstanceOf(obj, "ConvexInt64") THEN "ConvexInt64"
    ELSE IF IsInstanceOf(obj, "str") THEN "str"
    ELSE IF IsInstanceOf(obj, "bytes") THEN "bytes"
    ELSE IF IsInstanceOf(obj, "list") THEN "list"
    ELSE IF IsInstanceOf(obj, "dict") THEN "dict"
    ELSE IF IsInstanceOf(obj, "None") THEN "None"
    ELSE "unmatched"

(* The keys of a string-keyed dict in some iteration order. *)
RECURSIVE KeysInOrder(_)
KeysInOrder(ks) ==
    IF ks = {} THEN <<>>
    ELSE LET k == CHOOSE x \in ks : TRUE IN <<k>> \o KeysInOrder(ks \ {k})

(* py_dict.iter(): the (key, value) items of a dict. *)
DictItems(obj) ==
    IF "kv" \in DOMAIN obj THEN obj.kv
    ELSE LET ks == KeysInOrder(DOMAIN obj.d)
         IN  [i \in 1..Len(ks) |-> <<PyStr(ks[i]), obj.d[ks[i]]>>]

(* The two errors py_to_value makes itself. *)
BadKey == RErr("Bad key for Convex object")
FailedToSerialize == RErr("Failed to serialize to Convex value")

RECURSIVE PyToValue(_)
RECURSIVE PyListToValue(_, _, _)
RECURSIVE PyDictToValue(_, _, _)

(* A plausible slip: an element that fails to convert is left out. *)
RECURSIVE PyListToValueSkipping(_, _, _)
PyListToValueSkipping(list, i, vec) ==
    IF i > Len(list) THEN ROk(VArray(vec))
    ELSE LET inner == PyToValue(list[i])
         IN  IF inner.ok THEN PyListToValueSkipping(list, i + 1, Append(vec, inner.v))
             ELSE PyListToValueSkipping(list, i + 1, vec)

(* for item in py_list { vec.push(py_to_value(item)?) }; Ok(Array(vec)) *)
PyListToValue(list, i, vec) ==
    IF i > Len(list) THEN ROk(VArray(vec))
    ELSE LET inner == PyToValue(list[i])
         IN  IF inner.ok THEN PyListToValue(list, i + 1, Append(vec, inner.v))
             ELSE inner

(* for (key, value) in py_dict.iter() { value?, key?, match inner_key }     *)
PyDictToValue(kv, i, map) ==
    IF i > Len(kv) THEN ROk(VObject(map))
    ELSE LET innerValue == PyToValue(kv[i][2])
             innerKey == PyToValue(kv[i][1])
         IN  IF ~innerValue.ok THEN innerValue
             ELSE IF ~innerKey.ok THEN innerKey
             ELSE IF innerKey.v.tag = "String"
                  THEN PyDictToValue(kv, i + 1, SetItem(map, innerKey.v.s, innerValue.v))
                  ELSE BadKey

(* py_to_value *)
PyToValue(obj) ==
    LET c == CoercionCase(obj) IN
    CASE c = "bool" -> ROk(VBoolean(obj.b))
      [] c = "int" -> ROk(VFloat64(ExtractF64(obj)))
      [] c = "float" -> ROk(VFloat64(obj.f))
      [] c = "ConvexInt64" ->
            LET val == ExtractI64(obj.value)
            IN  IF val.ok THEN ROk(VInt64(val.v)) ELSE val
      [] c = "str" -> ROk(VString(obj.s))
      [] c = "bytes" -> ROk(VBytes(obj.bytes))
      [] c = "list" -> PyListToValue(obj.items, 1, <<>>)
      [] c = "dict" -> PyDictToValue(DictItems(obj), 1, <<>>)
      [] c = "None" -> ROk(VNull)
      [] c = "unmatched" -> FailedToSerialize

(* key.extract::<&PyString>(): succeeds on a str only. *)
ExtractPyString(key) ==
    IF IsInstanceOf(key, "str") THEN ROk(key.s) ELSE RErr("TypeError")

(* BTreeMapWrapper::from: d.iter().filter_map(..).collect(); an entry whose *)
(* key is no str or whose value fails to convert maps to None.              *)
RECURSIVE BTreeMapWrapperFrom(_, _, _)
BTreeMapWrapperFrom(kv, i, map) ==
    IF i > Len(kv) THEN map
    ELSE LET k == ExtractPyString(kv[i][1])
             v == PyToValue(kv[i][2])
         IN  IF k.ok /\ v.ok
             THEN BTreeMapWrapperFrom(kv, i + 1, SetItem(map, k.v, v.v))
             ELSE BTreeMapWrapperFrom(kv, i + 1, map)

(* BTreeMapWrapper::from(py, args.unwrap_or(PyDict::new(py))).deref().clone() *)
MarshalArgs(args) ==
    BTreeMapWrapperFrom(IF IsSome(args) THEN DictItems(Unwrap(args)) ELSE <<>>, 1, <<>>)

(* py_to_rust_to_py: py_to_value, then value_to_py of what it made. *)
PyToRustToPy(obj) ==
    LET r == PyToValue(obj)
    IN  IF r.ok THEN PyOk(ValueToPy(r.v)) ELSE PyErr("Exception", r.e)

----------------------------------------------------------------------------
(* The handle: one Python caller (it holds the GIL for the whole of every  *)
(* call it makes, blocking next() included) and the futures spawned by     *)
(* anext(), which run on the runtime's workers.                            *)
Host == 0
Tasks == 1..MaxTasks
Procs == {Host} \cup Tasks

(* The items a stream can carry: FunctionResults for a QuerySubscription,  *)
(* batches for a QuerySetSubscription.                                     *)
QueryItems ==
    {FrValue(VString("a")), FrErrorMessage("a"), FrConvexError("a", VNull)}
SetItems ==
    {<<None, None>>, <<Some(FrValue(VString("a"))), None>>}
Items(k) == IF k = "query" THEN QueryItems ELSE SetItems

(* The places where a process is about to run `inner.lock()`. *)
LockSites == {"exists", "unsubscribe", "id_take", "id_insert", "take", "insert"}

(* A plausible slip: exists() that tells whether the handle has a slot. *)
ExistsValueOfHandle(s) == TRUE

(* exists(): self.inner.lock().is_some() *)
ExistsValue(s) == IsSome(s)

(* A plausible slip: unsubscribe() that only looks at the slot. *)
UnsubscribeSlotPeek(s) == s

(* unsubscribe(): self.inner.lock().take(); leaves None in the slot. *)
UnsubscribeSlot(s) == None

(* A plausible slip: the guard bound to a local that lives across the await. *)
GuardHeldAcrossAwait(p) == {p}

(* `query_sub.lock().take()` is one statement: its guard is a temporary,     *)
(* dropped at the end of the statement, so no holder is left afterwards.    *)
GuardAfterTake(p) == {}

(* A plausible slip: the cursor cloned out of the slot instead of taken. *)
SlotAfterTakeCloned(s) == s

(* `query_sub.lock().take()`: Option::take leaves None in the slot. *)
SlotAfterTake(s) == None

(* A plausible slip: the cursor not written back after the await. *)
SlotAfterInsertForgotten(s, cursor) == s

(* `query_sub.lock().insert(query_sub_inner)`: Option::insert overwrites. *)
SlotAfterInsert(s, cursor) == Some(cursor)

(* tokio::select! drops the losing branch: the async block of next() and    *)
(* with it the local query_sub_inner, i.e. the cursor it had taken.         *)
HeldAfterInterrupt(h) == None

(* A plausible slip: an advance that finds the slot empty tries again until *)
(* the cursor is back.                                                      *)
PcAfterEmptyTakeRetry(p) == "take"

(* `if query_sub_inner.is_none() { return Err(..) }`: next() returns to the *)
(* caller, the future of anext() is finished.                               *)
PcAfterEmptyTake(p) == IF p = Host THEN "idle" ELSE "done"

(* A plausible slip: the stream polled twice, the first item thrown away. *)
CursorAfterNextTwice(cursor) == [pos |-> cursor.pos + 2]

(* query_sub_inner.next().await yielding an item moves the cursor one place *)
(* on in its stream.                                                        *)
CursorAfterNext(cursor) == [pos |-> cursor.pos + 1]

(* The result a finished blocking next() hands to Python. *)
NextResult(k, res) == IF k = "query" THEN QueryNextResult(res) ELSE SetNextResult(res)

(* The result a finished anext() future resolves to. *)
AnextResult(k, res) == IF k = "query" THEN QueryAnextResult(res) ELSE SetAnextResult(res)

HandleInit ==
    /\ kind \in {"query", "set"}
    /\ streamEnds \in BOOLEAN
    /\ slot = Some([pos |-> 0])
    /\ mutex = {}
    /\ pc = [p \in Procs |-> "idle"]
    /\ held = [p \in Procs |-> None]
    /\ got = [p \in Procs |-> None]
    /\ hostRes = [call |-> "none", ret |-> PyOk(PyNone)]
    /\ taskRes = [t \in Tasks |-> None]
    /\ unsubscribed = FALSE
    /\ closedFromOpen = FALSE
    /\ gotAt = [p \in Procs |-> 0]
    /\ returned = <<>>
    /\ singleConsumer = TRUE

(* Python calls exists(), unsubscribe(), id, next() or anext(). *)
CallExists ==
    /\ pc[Host] = "idle"
    /\ pc' = [pc EXCEPT ![Host] = "exists"]
    /\ UNCHANGED <<kind, streamEnds, slot, mutex, held, got, hostRes,
                   taskRes, sigPending, unsubscribed, closedFromOpen>>
    /\ UNCHANGED <<gotAt, returned, singleConsumer>>
    /\ UNCHANGED <<bridgeVars, resultVars, snapVars, marshalVars>>

CallUnsubscribe ==
    /\ pc[Host] = "idle"
    /\ kind = "query"
    /\ pc' = [pc EXCEPT ![Host] = "unsubscribe"]
    /\ UNCHANGED <<kind, streamEnds, slot, mutex, held, got, hostRes,
                   taskRes, sigPending, unsubscribed, closedFromOpen>>
    /\ UNCHANGED <<gotAt, returned, singleConsumer>>
    /\ UNCHANGED <<bridgeVars, resultVars, snapVars, marshalVars>>

CallId ==
    /\ pc[Host] = "idle"
    /\ kind = "query"
    /\ pc' = [pc EXCEPT ![Host] = "id_take"]
    /\ UNCHANGED <<kind, streamEnds, slot, mutex, held, got, hostRes,
                   taskRes, sigPending, unsubscribed, closedFromOpen>>
    /\ UNCHANGED <<gotAt, returned, singleConsumer>>
    /\ UNCHANGED <<bridgeVars, resultVars, snapVars, marshalVars>>

CallNext ==
    /\ pc[Host] = "idle"
    /\ pc' = [pc EXCEPT ![Host] = "take"]
    /\ singleConsumer' = (singleConsumer /\ \A t \in Tasks : pc[t] \in {"idle", "done"})
    /\ UNCHANGED <<kind, streamEnds, slot, mutex, held, got, hostRes,
                   taskRes, sigPending, unsubscribed, closedFromOpen,
                   gotAt, returned>>
    /\ UNCHANGED <<bridgeVars, resultVars, snapVars, marshalVars>>

(* anext(): future_into_py spawns the future and returns at once.  Futures *)
(* are numbered in the order they are created.                             *)
CallAnext(t) ==
    /\ pc[Host] = "idle"
    /\ pc[t] = "idle"
    /\ \A u \in Tasks : u < t => pc[u] # "idle"
    /\ pc' = [pc EXCEPT ![t] = "take"]
    /\ hostRes' = [call |-> "anext", ret |-> PyOk([py |-> "Future", task |-> t])]
    /\ singleConsumer' = (singleConsumer /\ \A u \in Tasks : pc[u] \in {"idle", "done"})
    /\ UNCHANGED <<kind, streamEnds, slot, mutex, held, got,
                   taskRes, sigPending, unsubscribed, closedFromOpen,
                   gotAt, returned>>
    /\ UNCHANGED <<bridgeVars, resultVars, snapVars, marshalVars>>

(* inner.lock(): blocks the thread until the mutex is free. *)
Lock(p) ==
    /\ pc[p] \in LockSites
    /\ mutex = {}
    /\ mutex' = {p}
    /\ UNCHANGED <<kind, streamEnds, slot, pc, held, got, hostRes,
                   taskRes, sigPending, unsubscribed, closedFromOpen>>
    /\ UNCHANGED <<gotAt, returned, singleConsumer>>
    /\ UNCHANGED <<bridgeVars, resultVars, snapVars, marshalVars>>

ExistsReturn ==
    /\ pc[Host] = "exists"
    /\ mutex = {Host}
    /\ hostRes' = [call |-> "exists", ret |-> PyOk(PyBool(ExistsValue(slot)))]
    /\ mutex' = {}
    /\ pc' = [pc EXCEPT ![Host] = "idle"]
    /\ UNCHANGED <<kind, streamEnds, slot, held, got,
                   taskRes, sigPending, unsubscribed, closedFromOpen>>
    /\ UNCHANGED <<gotAt, returned, singleConsumer>>
    /\ UNCHANGED <<bridgeVars, resultVars, snapVars, marshalVars>>

UnsubscribeReturn ==
    /\ pc[Host] = "unsubscribe"
    /\ mutex = {Host}
    /\ slot' = UnsubscribeSlot(slot)
    /\ mutex' = {}
    /\ pc' = [pc EXCEPT ![Host] = "idle"]
    /\ hostRes' = [call |-> "unsubscribe", ret |-> PyOk(PyNone)]
    /\ unsubscribed' = TRUE
    /\ closedFromOpen' = (closedFromOpen \/ IsSome(slot))
    /\ UNCHANGED <<kind, streamEnds, held, got, taskRes, sigPending>>
    /\ UNCHANGED <<gotAt, returned, singleConsumer>>
    /\ UNCHANGED <<bridgeVars, resultVars, snapVars, marshalVars>>

(* id: query_sub.lock().take().unwrap() *)
IdTake ==
    /\ pc[Host] = "id_take"
    /\ mutex = {Host}
    /\ mutex' = {}
    /\ slot' = SlotAfterTake(slot)
    /\ IF IsSome(slot)
       THEN /\ held' = [held EXCEPT ![Host] = slot]
            /\ pc' = [pc EXCEPT ![Host] = "id_insert"]
            /\ UNCHANGED hostRes
       ELSE /\ hostRes' = [call |-> "id", ret |-> Panic]
            /\ pc' = [pc EXCEPT ![Host] = "idle"]
            /\ UNCHANGED held
    /\ UNCHANGED <<kind, streamEnds, got, taskRes, sigPending,
                   unsubscribed, closedFromOpen>>
    /\ UNCHANGED <<gotAt, returned, singleConsumer>>
    /\ UNCHANGED <<bridgeVars, resultVars, snapVars, marshalVars>>

(* id: let _ = query_sub.lock().insert(query_sub_inner); then return sub_id *)
IdInsert ==
    /\ pc[Host] = "id_insert"
    /\ mutex = {Host}
    /\ mutex' = {}
    /\ slot' = SlotAfterInsert(slot, Unwrap(held[Host]))
    /\ held' = [held EXCEPT ![Host] = None]
    /\ hostRes' = [call |-> "id", ret |-> PyOk([py |-> "SubscriberId", id |-> 1])]
    /\ pc' = [pc EXCEPT ![Host] = "idle"]
    /\ UNCHANGED <<kind, streamEnds, got, taskRes, sigPending,
                   unsubscribed, closedFromOpen>>
    /\ UNCHANGED <<gotAt, returned, singleConsumer>>
    /\ UNCHANGED <<bridgeVars, resultVars, snapVars, marshalVars>>

(* next()/anext(): let query_sub_inner = query_sub.lock().take();           *)
(* if query_sub_inner.is_none() { return Err(Stop..("Stream requires reset")) } *)
Take(p) ==
    /\ pc[p] = "take"
    /\ mutex = {p}
    /\ slot' = SlotAfterTake(slot)
    /\ IF IsSome(slot)
       THEN /\ held' = [held EXCEPT ![p] = slot]
            /\ mutex' = GuardAfterTake(p)
            /\ pc' = [pc EXCEPT ![p] = "await"]
            /\ UNCHANGED <<hostRes, taskRes>>
       ELSE /\ mutex' = {}
            /\ UNCHANGED held
            /\ IF p = Host
               THEN /\ hostRes' = [call |-> "next", ret |-> StreamRequiresReset]
                    /\ pc' = [pc EXCEPT ![p] = PcAfterEmptyTake(p)]
                    /\ UNCHANGED taskRes
               ELSE /\ taskRes' = [taskRes EXCEPT ![p] = Some(AsyncStreamRequiresReset)]
                    /\ pc' = [pc EXCEPT ![p] = PcAfterEmptyTake(p)]
                    /\ UNCHANGED hostRes
    /\ UNCHANGED <<kind, streamEnds, got, sigPending,
                   unsubscribed, closedFromOpen>>
    /\ UNCHANGED <<gotAt, returned, singleConsumer>>
    /\ UNCHANGED <<bridgeVars, resultVars, snapVars, marshalVars>>

(* query_sub_inner.next().await completes: the transport delivers some     *)
(* next item to the cursor, or None once an ending stream is used up.      *)
Deliver(p) ==
    /\ pc[p] = "await"
    /\ LET cursor == Unwrap(held[p]) IN
       \/ /\ cursor.pos < MaxItems
          /\ \E item \in Items(kind) : got' = [got EXCEPT ![p] = Some(item)]
          /\ held' = [held EXCEPT ![p] = Some(CursorAfterNext(cursor))]
          /\ gotAt' = [gotAt EXCEPT ![p] = CursorAfterNext(cursor).pos]
       \/ /\ cursor.pos = MaxItems
          /\ streamEnds
          /\ got' = [got EXCEPT ![p] = None]
          /\ UNCHANGED <<held, gotAt>>
    /\ pc' = [pc EXCEPT ![p] = "insert"]
    /\ UNCHANGED <<kind, streamEnds, slot, mutex, hostRes,
                   taskRes, sigPending, unsubscribed, closedFromOpen>>
    /\ UNCHANGED <<returned, singleConsumer>>
    /\ UNCHANGED <<bridgeVars, resultVars, snapVars, marshalVars>>

(* let _ = query_sub.lock().insert(query_sub_inner); Ok(res)                *)
(* For next() the block_on then returns and the result is matched.          *)
Insert(p) ==
    /\ pc[p] = "insert"
    /\ mutex = {p}
    /\ mutex' = {}
    /\ slot' = SlotAfterInsert(slot, Unwrap(held[p]))
    /\ held' = [held EXCEPT ![p] = None]
    /\ IF p = Host
       THEN /\ hostRes' = [call |-> "next", ret |-> NextResult(kind, got[p])]
            /\ got' = [got EXCEPT ![p] = None]
            /\ returned' = IF IsSome(got[p]) THEN Append(returned, gotAt[p]) ELSE returned
            /\ gotAt' = [gotAt EXCEPT ![p] = 0]
            /\ pc' = [pc EXCEPT ![p] = "idle"]
       ELSE /\ pc' = [pc EXCEPT ![p] = "convert"]
            /\ UNCHANGED <<hostRes, got, gotAt, returned>>
    /\ UNCHANGED <<kind, streamEnds, taskRes, sigPending,
                   unsubscribed, closedFromOpen>>
    /\ UNCHANGED <<singleConsumer>>
    /\ UNCHANGED <<bridgeVars, resultVars, snapVars, marshalVars>>

(* anext(): Python::with_gil(|py| match res.unwrap() { .. }); the GIL is    *)
(* free only between the caller's calls.                                    *)
Convert(t) ==
    /\ t \in Tasks
    /\ pc[t] = "convert"
    /\ pc[Host] = "idle"
    /\ taskRes' = [taskRes EXCEPT ![t] = Some(AnextResult(kind, got[t]))]
    /\ got' = [got EXCEPT ![t] = None]
    /\ returned' = IF IsSome(got[t]) THEN Append(returned, gotAt[t]) ELSE returned
    /\ gotAt' = [gotAt EXCEPT ![t] = 0]
    /\ pc' = [pc EXCEPT ![t] = "done"]
    /\ UNCHANGED <<kind, streamEnds, slot, mutex, held, hostRes,
                   sigPending, unsubscribed, closedFromOpen, singleConsumer>>
    /\ UNCHANGED <<bridgeVars, resultVars, snapVars, marshalVars>>

(* A signal (SIGINT) arrives for the Python process. *)
RaiseSignal ==
    /\ ~sigPending
    /\ sigPending' = TRUE
    /\ UNCHANGED <<kind, streamEnds, slot, mutex, pc, held, got, hostRes,
                   taskRes, unsubscribed, closedFromOpen>>
    /\ UNCHANGED <<gotAt, returned, singleConsumer>>
    /\ UNCHANGED <<bridgeVars, resultVars, snapVars, marshalVars>>

(* check_python_signals_periodically wins the select! of a blocking next(): *)
(* py.check_signals() returns the error, next() returns it through `?`.     *)
PollerInterrupt ==
    /\ pc[Host] = "await"
    /\ sigPending
    /\ sigPending' = FALSE
    /\ held' = [held EXCEPT ![Host] = HeldAfterInterrupt(held[Host])]
    /\ hostRes' = [call |-> "next", ret |-> KeyboardInterrupt]
    /\ pc' = [pc EXCEPT ![Host] = "idle"]
    /\ UNCHANGED <<kind, streamEnds, slot, mutex, got,
                   taskRes, unsubscribed, closedFromOpen>>
    /\ UNCHANGED <<gotAt, returned, singleConsumer>>
    /\ UNCHANGED <<bridgeVars, resultVars, snapVars, marshalVars>>

HandleNext ==
    \/ CallExists
    \/ CallUnsubscribe
    \/ CallId
    \/ CallNext
    \/ \E t \in Tasks : CallAnext(t)
    \/ \E p \in Procs : Lock(p)
    \/ ExistsReturn
    \/ UnsubscribeReturn
    \/ IdTake
    \/ IdInsert
    \/ \E p \in Procs : Take(p)
    \/ \E p \in Procs : Deliver(p)
    \/ \E p \in Procs : Insert(p)
    \/ \E t \in Tasks : Convert(t)
    \/ RaiseSignal
    \/ PollerInterrupt

----------------------------------------------------------------------------
(* PyConvexClient: every call is `self.rt.block_on(select!(op, poller))`.  *)
(* The methods take &mut self, so one call is in block_on at a time.       *)
OneShotOps == {"query", "mutation", "action", "subscribe"}
AuthOps == {"set_auth", "set_admin_auth"}
ClientOps == OneShotOps \cup AuthOps

(* What the client's future of an operation can complete with. *)
OpResults(op) ==
    CASE op \in {"query", "mutation", "action"} ->
            {ROk(fr) : fr \in QueryItems} \cup {RErr("transport error")}
      [] op = "subscribe" ->
            {ROk([py |-> "PyQuerySubscription"]), RErr("transport error")}
      [] op \in AuthOps -> {ROk(PyNone)}

(* PyErr's Display, as used by anyhow's e.to_string(): "<type>: <value>". *)
PyErrToString(err) == err.exc \o ": " \o err.msg

(* A plausible slip: the poller branch yields a default value. *)
InterruptBranchSwallowed(sigErr) == ROk(FrValue(VNull))

(* The poller branch of a one-shot call:                                    *)
(* res2 = check_python_signals_periodically() => Err(res2.expect_err(..).into()) *)
InterruptBranch(sigErr) == RErr(PyErrToString(sigErr))

(* query / mutation / action: match res { Ok(res) => .., Err(e) => .. } *)
OneShotReturn(res) ==
    IF res.ok THEN FunctionResultToPyResult(res.v)
    ELSE PyErr("Exception", res.e)

(* subscribe: match res { Ok(res) => Ok(py_res), Err(e) => .. } *)
SubscribeReturn(res) ==
    IF res.ok THEN PyOk(res.v)
    ELSE PyErr("Exception", res.e)

(* set_auth / set_admin_auth: the operation branch returns (). *)
AuthReturn(res) == PyOk(PyNone)

(* set_auth / set_admin_auth: _ = check_python_signals_periodically() => panic!() *)
AuthInterruptReturn(sigErr) == PyErr("PanicException", "explicit panic")

(* What a call hands back to Python, by the branch of select! that won. *)
ClientReturn(op, branch, res) ==
    CASE op \in AuthOps /\ branch = "op" -> AuthReturn(res)
      [] op \in AuthOps /\ branch = "poller" -> AuthInterruptReturn(KeyboardInterrupt)
      [] op = "subscribe" /\ branch = "op" -> SubscribeReturn(res)
      [] op = "subscribe" /\ branch = "poller" ->
            SubscribeReturn(InterruptBranch(KeyboardInterrupt))
      [] op \notin AuthOps /\ op # "subscribe" /\ branch = "op" -> OneShotReturn(res)
      [] op \notin AuthOps /\ op # "subscribe" /\ branch = "poller" ->
            OneShotReturn(InterruptBranch(KeyboardInterrupt))

BridgeInit ==
    /\ cPc = "idle"
    /\ cFut = None
    /\ cSeq = 0
    /\ cHist = <<>>
    /\ cAbandoned = {}

(* The handle, left alone while the client is exercised. *)
HandleParked ==
    /\ kind = "query"
    /\ streamEnds = FALSE
    /\ slot = Some([pos |-> 0])
    /\ mutex = {}
    /\ pc = [p \in Procs |-> "idle"]
    /\ held = [p \in Procs |-> None]
    /\ got = [p \in Procs |-> None]
    /\ hostRes = [call |-> "none", ret |-> PyOk(PyNone)]
    /\ taskRes = [t \in Tasks |-> None]
    /\ unsubscribed = FALSE
    /\ closedFromOpen = FALSE
    /\ gotAt = [p \in Procs |-> 0]
    /\ returned = <<>>
    /\ singleConsumer = TRUE

(* The `args` a caller passes to query / mutation / action / subscribe:    *)
(* None, or a dict.                                                         *)
ArgChoices ==
    {None,
     Some(PyDictItems(<<<<PyStr("a"), PyInt(1)>>>>)),
     Some(PyDictItems(<<<<PyStr("a"), PyInt(1)>>, <<PyStr("b"), PyObjectOf("Custom")>>>>)),
     Some(PyDictItems(<<<<PyInt(1), PyStr("x")>>, <<PyStr("a"), PyInt(1)>>>>))}

(* Python calls query / mutation / action / subscribe / set_auth /          *)
(* set_admin_auth: the args are marshalled (the auth calls have none), the  *)
(* operation future is created with them and block_on entered.              *)
ClientCall(op) ==
    /\ cPc = "idle"
    /\ cSeq < MaxCalls
    /\ cSeq' = cSeq + 1
    /\ \E pyArgs \in (IF op \in OneShotOps THEN ArgChoices ELSE {None}) :
           cFut' = Some([id |-> cSeq + 1, op |-> op, pyArgs |-> pyArgs,
                         args |-> MarshalArgs(pyArgs)])
    /\ cPc' = "wait"
    /\ UNCHANGED <<cHist, cAbandoned, sigPending, handleVars, resultVars, snapVars, marshalVars>>

(* The operation branch of select! completes first: res1 => res1. *)
OpCompletes ==
    /\ cPc = "wait"
    /\ LET fut == Unwrap(cFut) IN
       \E res \in OpResults(fut.op) :
           cHist' = Append(cHist, [id |-> fut.id, op |-> fut.op, pyArgs |-> fut.pyArgs,
                                   args |-> fut.args, branch |-> "op",
                                   res |-> Some(res),
                                   ret |-> ClientReturn(fut.op, "op", res)])
    /\ cFut' = None
    /\ cPc' = "idle"
    /\ UNCHANGED <<cSeq, cAbandoned, sigPending, handleVars, resultVars, snapVars, marshalVars>>

(* The poller branch completes first: py.check_signals() returned the       *)
(* error; select! drops the operation future.                               *)
ClientPollerInterrupt ==
    /\ cPc = "wait"
    /\ sigPending
    /\ sigPending' = FALSE
    /\ LET fut == Unwrap(cFut) IN
       /\ cHist' = Append(cHist, [id |-> fut.id, op |-> fut.op, pyArgs |-> fut.pyArgs,
                                  args |-> fut.args, branch |-> "poller",
                                  res |-> None,
                                  ret |-> ClientReturn(fut.op, "poller", None)])
       /\ cAbandoned' = cAbandoned \cup {fut.id}
    /\ cFut' = None
    /\ cPc' = "idle"
    /\ UNCHANGED <<cSeq, handleVars, resultVars, snapVars, marshalVars>>

(* A signal (SIGINT) arrives for the Python process. *)
ClientRaiseSignal ==
    /\ ~sigPending
    /\ sigPending' = TRUE
    /\ UNCHANGED <<bridgeVars, handleVars, resultVars, snapVars, marshalVars>>

BridgeNext ==
    \/ \E op \in ClientOps : ClientCall(op)
    \/ OpCompletes
    \/ ClientPollerInterrupt
    \/ ClientRaiseSignal

----------------------------------------------------------------------------
(* The result conversions as pure functions of their input.                *)
AtomValues ==
    {VNull, VInt64(1), VFloat64(1), VBoolean(TRUE), VString("a"), VBytes(<<1>>)}
ArrayValues ==
    {VArray(a) : a \in UNION {[1..n -> AtomValues] : n \in 0..MaxArrayLen}}
ObjectValues ==
    {VObject(<<>>),
     VObject([type |-> VString("value"), value |-> VNull]),
     VObject([type |-> VString("convexerror"), message |-> VString("a"),
              data |-> VNull])}
Values == AtomValues \cup ArrayValues \cup ObjectValues
Messages == {"a", "b"}
FunctionResults ==
    {FrValue(v) : v \in Values}
      \cup {FrErrorMessage(m) : m \in Messages}
      \cup {FrConvexError(m, d) : m \in Messages, d \in Values}

ResultParked ==
    /\ rA = FrValue(VNull)
    /\ rB = FrValue(VNull)
    /\ rOutA = None
    /\ rOutB = None
    /\ rVia = "none"

ResultInit ==
    /\ rA \in FunctionResults
    /\ rB \in FunctionResults
    /\ rOutA = None
    /\ rOutB = None
    /\ rVia = "none"

(* query / mutation / action return self.function_result_to_py_result(py, res). *)
ApplyOneShot ==
    /\ rVia # "oneshot"
    /\ rOutA' = Some(FunctionResultToPyResult(rA))
    /\ rOutB' = Some(FunctionResultToPyResult(rB))
    /\ rVia' = "oneshot"
    /\ UNCHANGED <<rA, rB, handleVars, sigPending, bridgeVars, snapVars, marshalVars>>

(* PyQuerySubscription::next on a delivered item. *)
ApplyNext ==
    /\ rVia # "next"
    /\ rOutA' = Some(QueryNextResult(Some(rA)))
    /\ rOutB' = Some(QueryNextResult(Some(rB)))
    /\ rVia' = "next"
    /\ UNCHANGED <<rA, rB, handleVars, sigPending, bridgeVars, snapVars, marshalVars>>

(* PyQuerySubscription::anext on a delivered item. *)
ApplyAnext ==
    /\ rVia # "anext"
    /\ rOutA' = Some(QueryAnextResult(Some(rA)))
    /\ rOutB' = Some(QueryAnextResult(Some(rB)))
    /\ rVia' = "anext"
    /\ UNCHANGED <<rA, rB, handleVars, sigPending, bridgeVars, snapVars, marshalVars>>

ResultNext == ApplyOneShot \/ ApplyNext \/ ApplyAnext

----------------------------------------------------------------------------
(* The set handle's snapshot as a pure function of the batch.              *)
SnapItems ==
    {FrValue(VString("a")), FrValue(VNull), FrErrorMessage("a"),
     FrConvexError("a", VNull)}
Batches ==
    UNION {[1..n -> {None} \cup {Some(fr) : fr \in SnapItems}] : n \in 0..MaxSubs}

SnapParked ==
    /\ sBatch = <<>>
    /\ sSnap = None
    /\ sVia = "none"

SnapInit ==
    /\ sBatch \in Batches
    /\ sSnap = None
    /\ sVia = "none"

(* PyQuerySetSubscription::next on a delivered batch. *)
SnapshotNext ==
    /\ sVia # "next"
    /\ sSnap' = Some(SetNextResult(Some(sBatch)))
    /\ sVia' = "next"
    /\ UNCHANGED <<sBatch, handleVars, sigPending, bridgeVars, resultVars, marshalVars>>

(* PyQuerySetSubscription::anext on a delivered batch. *)
SnapshotAnext ==
    /\ sVia # "anext"
    /\ sSnap' = Some(SetAnextResult(Some(sBatch)))
    /\ sVia' = "anext"
    /\ UNCHANGED <<sBatch, handleVars, sigPending, bridgeVars, resultVars, marshalVars>>

SnapNext == SnapshotNext \/ SnapshotAnext

----------------------------------------------------------------------------
(* py_to_value as a pure function of a host value, and the round trip of a  *)
(* Value through value_to_py and py_to_value.                               *)
TestInts == {I64Min - 1, I64Min, 0, 1, 7, 2 ^ MantBits + 1, I64Max, I64Max + 1}
HostAtoms ==
    {PyNone, PyBool(TRUE), PyBool(FALSE), PyFloat(1), PyStr("a"), PyBytes(<<1>>),
     PyObjectOf("Custom"), PyTuple(<<>>)}
      \cup {PyInt(n) : n \in TestInts}
      \cup {PyConvexInt64(n) : n \in TestInts}
HostElems == {PyInt(1), PyBool(TRUE), PyStr("a"), PyObjectOf("Custom")}
HostKeys == {PyStr("a"), PyStr("b"), PyInt(1), PyObjectOf("Custom")}
HostLists(S) == {PyList(l) : l \in UNION {[1..n -> S] : n \in 0..MaxArrayLen}}
HostDicts(S) ==
    {PyDictItems(<<>>)}
      \cup {PyDictItems(<<<<k, v>>>>) : k \in HostKeys, v \in S}
      \cup {PyDictItems(<<<<PyStr("a"), PyInt(1)>>, <<k, v>>>>) :
                k \in HostKeys \ {PyStr("a")}, v \in S}
HostNested == HostElems \cup HostLists(HostElems) \cup HostDicts(HostElems)
HostValues == HostAtoms \cup HostLists(HostNested) \cup HostDicts(HostNested)

RoundTripAtoms ==
    AtomValues \cup {VInt64(I64Min), VInt64(I64Max), VFloat64(0), VBoolean(FALSE),
                     VString("")}
RoundTripNested ==
    Values
      \cup {VObject([a |-> v]) : v \in Values}
      \cup {VObject([a |-> v, b |-> VNull]) : v \in Values}
RoundTripValues ==
    RoundTripAtoms \cup RoundTripNested
      \cup {VArray(a) : a \in UNION {[1..n -> RoundTripNested] : n \in 1..MaxArrayLen}}

MarshalParked ==
    /\ mPy = PyNone
    /\ mVal = VNull
    /\ mOut = None
    /\ mVia = "none"

MarshalInit ==
    /\ \/ mPy \in HostValues /\ mVal = VNull
       \/ mPy = PyNone /\ mVal \in RoundTripValues
    /\ mOut = None
    /\ mVia = "none"

(* py_to_value(py_val) *)
ApplyPyToValue ==
    /\ mVia # "py_to_value"
    /\ mOut' = Some(PyToValue(mPy))
    /\ mVia' = "py_to_value"
    /\ UNCHANGED <<mPy, mVal, handleVars, sigPending, bridgeVars, resultVars, snapVars>>

(* py_to_rust_to_py(py_val) *)
ApplyPyToRustToPy ==
    /\ mVia # "py_to_rust_to_py"
    /\ mOut' = Some(PyToRustToPy(mPy))
    /\ mVia' = "py_to_rust_to_py"
    /\ UNCHANGED <<mPy, mVal, handleVars, sigPending, bridgeVars, resultVars, snapVars>>

(* py_to_value(value_to_py(v)) *)
ApplyRoundTrip ==
    /\ mVia # "round_trip"
    /\ mOut' = Some(PyToValue(ValueToPy(mVal)))
    /\ mVia' = "round_trip"
    /\ UNCHANGED <<mPy, mVal, handleVars, sigPending, bridgeVars, resultVars, snapVars>>

MarshalNext == ApplyPyToValue \/ ApplyPyToRustToPy \/ ApplyRoundTrip

----------------------------------------------------------------------------
Init == HandleInit /\ sigPending = FALSE /\ BridgeInit /\ ResultParked /\ SnapParked
        /\ MarshalParked
Next == HandleNext
Spec == Init /\ [][Next]_vars

BridgeSpecInit ==
    HandleParked /\ sigPending = FALSE /\ BridgeInit /\ ResultParked /\ SnapParked
        /\ MarshalParked
SpecBridge == BridgeSpecInit /\ [][BridgeNext]_vars

ResultSpecInit ==
    HandleParked /\ sigPending = FALSE /\ BridgeInit /\ ResultInit /\ SnapParked
        /\ MarshalParked
SpecResult == ResultSpecInit /\ [][ResultNext]_vars

SnapSpecInit ==
    HandleParked /\ sigPending = FALSE /\ BridgeInit /\ ResultParked /\ SnapInit
        /\ MarshalParked
SpecSnapshot == SnapSpecInit /\ [][SnapNext]_vars

MarshalSpecInit ==
    HandleParked /\ sigPending = FALSE /\ BridgeInit /\ ResultParked /\ SnapParked
        /\ MarshalInit
SpecMarshal == MarshalSpecInit /\ [][MarshalNext]_vars

(* One Python caller under fair scheduling: it blocks in one call at a     *)
(* time, a call on the client or a next() on the handle, and a behaviour   *)
(* exercises one of the two.  The poller's timer fires and the caller's    *)
(* thread runs; nothing makes the network deliver.                         *)
LiveClientCall(op) ==
    /\ pc[Host] = "idle"
    /\ hostRes.call = "none"
    /\ ClientCall(op)
    /\ Unwrap(cFut').pyArgs = None

LiveCallNext ==
    /\ cSeq = 0
    /\ CallNext

LiveNext ==
    \/ \E op \in ClientOps : LiveClientCall(op)
    \/ OpCompletes
    \/ ClientPollerInterrupt
    \/ LiveCallNext
    \/ Lock(Host)
    \/ Take(Host)
    \/ Deliver(Host)
    \/ Insert(Host)
    \/ PollerInterrupt
    \/ RaiseSignal

LiveFairness ==
    /\ WF_vars(ClientPollerInterrupt)
    /\ WF_vars(PollerInterrupt)
    /\ WF_vars(Lock(Host))
    /\ WF_vars(Take(Host))
    /\ WF_vars(Insert(Host))

SpecLive == Init /\ [][LiveNext]_vars /\ LiveFairness

(* The interrupt's error as a one-shot call returns it. *)
InterruptedError == PyErr("Exception", "KeyboardInterrupt: ")

(* C6: a returned one-shot call (query, mutation, action, subscribe) was    *)
(* decided by the branch that completed first: either the operation, and    *)
(* then the call returned that operation's own result and the operation was *)
(* not abandoned, or the poller, and then the call returned the interrupt's *)
(* error and the operation was abandoned without a result; never both, and  *)
(* this holds of every call, those that follow an interrupted call included. *)
C6_RaceDecidesOutcome ==
    \A i \in 1..Len(cHist) :
        LET h == cHist[i] IN
        h.op \in OneShotOps =>
            /\ h.id = i
            /\ h.branch = "op" =>
                  /\ IsSome(h.res)
                  /\ h.id \notin cAbandoned
                  /\ h.ret # InterruptedError
                  /\ (Unwrap(h.res).ok /\ h.op = "subscribe") => h.ret.ok
                  /\ (Unwrap(h.res).ok /\ h.op # "subscribe") =>
                        LET fr == Unwrap(h.res).v IN
                        IF fr.fr = "ErrorMessage"
                        THEN h.ret = PyErr("Exception", fr.message)
                        ELSE h.ret.ok
                  /\ ~Unwrap(h.res).ok => h.ret = PyErr("Exception", Unwrap(h.res).e)
            /\ h.branch = "poller" =>
                  /\ IsNone(h.res)
                  /\ h.id \in cAbandoned
                  /\ h.ret = InterruptedError

(* C6 witness: a one-shot call was interrupted and a later call returned    *)
(* its operation's result.                                                  *)
C6_Witness ==
    \E i, j \in 1..Len(cHist) :
        /\ i < j
        /\ cHist[i].op \in OneShotOps /\ cHist[i].branch = "poller"
        /\ cHist[i].ret = InterruptedError
        /\ cHist[j].op \in OneShotOps /\ cHist[j].branch = "op"
        /\ cHist[j].ret.ok

(* C7: an interrupt observed while set_auth / set_admin_auth is in flight   *)
(* makes that call return the interrupt's error, not a panic.               *)
C7_AuthInterruptIsRecoverable ==
    \A i \in 1..Len(cHist) :
        LET h == cHist[i] IN
        (h.op \in AuthOps /\ h.branch = "poller") =>
            (h.ret.exc # "PanicException" /\ h.ret = InterruptedError)

----------------------------------------------------------------------------
(* Properties of the handle.                                               *)

(* Some process holds the cursor outside the slot. *)
CursorOut == \E p \in Procs : IsSome(held[p])

(* No advance is between its call and its return. *)
NoAdvanceInFlight ==
    /\ pc[Host] = "idle"
    /\ \A t \in Tasks : pc[t] \in {"idle", "done"}

(* The step in which a blocking next() returns the interrupt's error. *)
InterruptedReturn ==
    /\ pc[Host] = "await"
    /\ pc'[Host] = "idle"
    /\ hostRes' = [call |-> "next", ret |-> KeyboardInterrupt]

(* C1: when a blocking next() that had taken the cursor returns the        *)
(* interrupt's error, the cursor is back in the slot (exists() is true),   *)
(* so that the handle can be advanced again.                               *)
C1_InterruptedNextRestoresCursor ==
    [][InterruptedReturn => (IsSome(slot') /\ ExistsValue(slot'))]_vars

(* C2: once unsubscribe() has returned and no advance is in flight, the    *)
(* slot is empty and exists() is false.                                    *)
C2_UnsubscribeIsFinal ==
    (unsubscribed /\ NoAdvanceInFlight) => (IsNone(slot) /\ ~ExistsValue(slot))

(* C3: every exists() call returns true exactly when the handle still has  *)
(* its cursor, in the slot (Open) or out of it for an advance in flight    *)
(* (Advancing), and false only when the cursor is gone (Unsubscribed).     *)
C3_ExistsReflectsOpenOrAdvancing ==
    [][(pc[Host] = "exists" /\ pc'[Host] = "idle")
        => (hostRes'.call = "exists"
            /\ hostRes'.ret = PyOk(PyBool(IsSome(slot) \/ CursorOut)))]_vars

(* C4: after unsubscribe() has discarded the cursor of an Open handle, the *)
(* slot stays empty, and every next() / anext() leaves its take step       *)
(* straight to its return with "Stream requires reset", never reaching the *)
(* await of the stream or of the poller.                                   *)
C4_UnsubscribeThenAdvance ==
    /\ [](closedFromOpen => (IsNone(slot) /\ ~CursorOut))
    /\ [][closedFromOpen =>
            /\ (pc[Host] = "take" /\ pc'[Host] # "take")
                 => (pc'[Host] = "idle"
                     /\ hostRes' = [call |-> "next", ret |-> StreamRequiresReset])
            /\ \A t \in Tasks :
                 (pc[t] = "take" /\ pc'[t] # "take")
                   => (pc'[t] = "done"
                       /\ taskRes'[t] = Some(AsyncStreamRequiresReset))]_vars

(* C4 witness: after such an unsubscribe(), a next() and an anext() have   *)
(* both returned "Stream requires reset".                                  *)
C4_Witness ==
    /\ closedFromOpen
    /\ pc[Host] = "idle"
    /\ hostRes = [call |-> "next", ret |-> StreamRequiresReset]
    /\ \E t \in Tasks : taskRes[t] = Some(AsyncStreamRequiresReset)

(* C5: the mutex is never held by a process suspended at the stream's      *)
(* await; whoever holds it is inside one lock statement, which it leaves   *)
(* in its next step, so exists() and unsubscribe() never wait for the      *)
(* stream.                                                                 *)
C5_MutexNotHeldAcrossAwait ==
    /\ \A p \in Procs : pc[p] = "await" => p \notin mutex
    /\ \A q \in mutex : pc[q] \in LockSites

(* C5 witness: exists() or unsubscribe() holds the mutex while an advance  *)
(* is suspended at the await.                                              *)
C5_Witness ==
    /\ \E t \in Tasks : pc[t] = "await"
    /\ pc[Host] \in {"exists", "unsubscribe"}
    /\ mutex = {Host}

----------------------------------------------------------------------------
(* Properties of the result conversions.                                   *)

(* The host outcome that stands for one FunctionResult variant. *)
OutcomeOfVariant(fr, out) ==
    CASE fr.fr = "Value" ->
            /\ out.ok
            /\ out.val.py = "dict"
            /\ DOMAIN out.val.d = {"type", "value"}
            /\ out.val.d.type = PyStr("value")
      [] fr.fr = "ErrorMessage" ->
            /\ ~out.ok
            /\ out.exc = "Exception"
            /\ out.msg = fr.message
      [] fr.fr = "ConvexError" ->
            /\ out.ok
            /\ out.val.py = "dict"
            /\ DOMAIN out.val.d = {"type", "message", "data"}
            /\ out.val.d.type = PyStr("convexerror")
            /\ out.val.d.message = PyStr(fr.message)
            /\ out.val.d.data = ValueToPy(fr.data)

(* C8: for one-shot calls and single-handle advances, Value, ErrorMessage  *)
(* and ConvexError give three pairwise different host outcomes: a wrapper  *)
(* tagged "value", a raised failure, and a wrapper tagged "convexerror"    *)
(* that carries message and data; two results of different variants never *)
(* give the same outcome.                                                  *)
C8_VariantsStayDistinct ==
    rVia # "none" =>
        /\ OutcomeOfVariant(rA, Unwrap(rOutA))
        /\ OutcomeOfVariant(rB, Unwrap(rOutB))
        /\ rA.fr # rB.fr => Unwrap(rOutA) # Unwrap(rOutB)

(* C8 witness: a string value and an error message with the same text have *)
(* been converted by a single handle's advance.                            *)
C8_Witness ==
    /\ rVia = "next"
    /\ rA = FrValue(VString("a"))
    /\ rB = FrErrorMessage("a")
    /\ Unwrap(rOutA).ok
    /\ ~Unwrap(rOutB).ok

(* The dict of a produced snapshot. *)
SnapDict == Unwrap(sSnap).val.d

(* C9: in every snapshot of a set handle (next and anext), two subscribers *)
(* whose results are of different variants never have the same entry.      *)
C9_SnapshotKeepsVariantsApart ==
    IsSome(sSnap) =>
        \A i, j \in DOMAIN SnapDict :
            Unwrap(sBatch[i]).fr # Unwrap(sBatch[j]).fr => SnapDict[i] # SnapDict[j]

(* C10: the keys of a snapshot are exactly the subscribers of the batch    *)
(* whose result is present; absent results are omitted.                    *)
C10_SnapshotKeysArePresentResults ==
    IsSome(sSnap) =>
        /\ Unwrap(sSnap).ok
        /\ DOMAIN SnapDict = {i \in 1..Len(sBatch) : IsSome(sBatch[i])}

(* C10 witness: three subscribers, one present result, one entry. *)
C10_Witness ==
    /\ IsSome(sSnap)
    /\ Len(sBatch) = 3
    /\ Cardinality({i \in 1..Len(sBatch) : IsSome(sBatch[i])}) = 1
    /\ Cardinality(DOMAIN SnapDict) = 1

----------------------------------------------------------------------------
(* Properties of py_to_value (specification SpecMarshal).                   *)
MarshalOut == Unwrap(mOut)

(* Every key and every value of the dict converts. *)
EntriesConvert(obj) ==
    \A i \in DOMAIN DictItems(obj) :
        PyToValue(DictItems(obj)[i][1]).ok /\ PyToValue(DictItems(obj)[i][2]).ok

(* Every key of the dict converts to a String Value. *)
KeysAreStrings(obj) ==
    \A i \in DOMAIN DictItems(obj) :
        LET k == PyToValue(DictItems(obj)[i][1]) IN k.ok /\ k.v.tag = "String"

(* C12: py_to_value of a mapping whose entries convert is an Object when    *)
(* every key converts to a String Value and a Map otherwise; {"a": 1} gives *)
(* Object({"a": Float64(1.0)}) and {1: "x"} gives a Map.                    *)
C12_MappingIsObjectOrMap ==
    (mVia = "py_to_value" /\ mPy.py = "dict" /\ EntriesConvert(mPy)) =>
        /\ MarshalOut.ok
        /\ MarshalOut.v.tag = (IF KeysAreStrings(mPy) THEN "Object" ELSE "Map")
        /\ mPy = PyDictItems(<<<<PyStr("a"), PyInt(1)>>>>) =>
               MarshalOut.v = VObject([a |-> VFloat64(1)])

(* C13: a ConvexInt64 holding n converts to Int64(n) exactly for every n of *)
(* the i64 range, the largest included; a plain int n converts to a         *)
(* Float64, the one equal to n when n is a float, and never to an Int64.    *)
C13_WrapperIsInt64PlainIntIsFloat64 ==
    mVia = "py_to_value" =>
        /\ (mPy.py = "ConvexInt64" /\ mPy.value >= I64Min /\ mPy.value <= I64Max) =>
               MarshalOut = ROk(VInt64(mPy.value))
        /\ mPy.py = "int" =>
               /\ MarshalOut.ok
               /\ MarshalOut.v.tag = "Float64"
               /\ (mPy.n >= -(2 ^ MantBits) /\ mPy.n <= 2 ^ MantBits) =>
                      MarshalOut.v = VFloat64(mPy.n)

C13_Witness ==
    /\ mVia = "py_to_value"
    /\ mPy = PyConvexInt64(I64Max)
    /\ MarshalOut = ROk(VInt64(I64Max))

(* C14: a host boolean converts to Boolean, never to Int64 or Float64,      *)
(* although it passes the integer test too.                                 *)
C14_BooleanBeforeInteger ==
    (mVia = "py_to_value" /\ mPy.py = "bool") =>
        /\ IsInstanceOf(mPy, "int")
        /\ MarshalOut = ROk(VBoolean(mPy.b))

C14_Witness ==
    /\ mVia = "py_to_value"
    /\ mPy = PyBool(TRUE)
    /\ MarshalOut = ROk(VBoolean(TRUE))

(* C15: for every Value v without Map or Set, py_to_value(value_to_py(v))   *)
(* succeeds and is v again, nested Arrays and Objects included.             *)
C15_RoundTrip ==
    mVia = "round_trip" => MarshalOut = ROk(mVal)

C15_Witness ==
    /\ mVia = "round_trip"
    /\ mVal = VArray(<<VObject([a |-> VInt64(1)])>>)
    /\ MarshalOut = ROk(mVal)

(* A host value that matches no coercion case sits in obj: obj itself, an  *)
(* element of a list or a value of a dict, at any depth.                    *)
RECURSIVE HasUnmatched(_)
HasUnmatched(obj) ==
    CASE CoercionCase(obj) = "unmatched" -> TRUE
      [] CoercionCase(obj) = "list" ->
            \E i \in DOMAIN obj.items : HasUnmatched(obj.items[i])
      [] CoercionCase(obj) = "dict" ->
            \E i \in DOMAIN DictItems(obj) : HasUnmatched(DictItems(obj)[i][2])
      [] OTHER -> FALSE

(* C16: py_to_value of a host value holding, at any depth, a list element   *)
(* or dict value that matches no coercion case returns an error and no      *)
(* Value; at top level the error is "Failed to serialize".                  *)
C16_UnmatchedGivesErrorNotPartialValue ==
    (mVia = "py_to_value" /\ HasUnmatched(mPy)) =>
        /\ ~MarshalOut.ok
        /\ CoercionCase(mPy) = "unmatched" => MarshalOut = FailedToSerialize

C16_Witness ==
    /\ mVia = "py_to_value"
    /\ mPy = PyList(<<PyList(<<PyObjectOf("Custom")>>)>>)
    /\ MarshalOut = FailedToSerialize

----------------------------------------------------------------------------
(* Properties of the args of a one-shot call (specification SpecBridge).    *)

(* The args hold an entry that cannot be marshalled: a key that is no str   *)
(* or a value py_to_value fails on.                                         *)
HasBadEntry(pyArgs) ==
    /\ IsSome(pyArgs)
    /\ \E i \in DOMAIN DictItems(Unwrap(pyArgs)) :
           \/ ~IsInstanceOf(DictItems(Unwrap(pyArgs))[i][1], "str")
           \/ ~PyToValue(DictItems(Unwrap(pyArgs))[i][2]).ok

(* C11: a query, mutation, action or subscribe whose args hold an entry     *)
(* that cannot be marshalled issues no request to the client and returns    *)
(* an error; it never runs with the remaining entries.                      *)
C11_BadArgsFailTheCall ==
    /\ IsSome(cFut) => ~HasBadEntry(Unwrap(cFut).pyArgs)
    /\ \A i \in DOMAIN cHist :
           HasBadEntry(cHist[i].pyArgs) => (cHist[i].branch = "marshal" /\ ~cHist[i].ret.ok)

----------------------------------------------------------------------------
(* Properties of the handle's advances (specification Spec).                *)

(* C17: while the handle has had a single consumer, the items its advances  *)
(* returned are the first items of the stream, in the stream's order: none  *)
(* out of order, none twice, none skipped.                                  *)
C17_ReturnedIsPrefixOfStream ==
    singleConsumer => returned = [i \in 1..Len(returned) |-> i]

C17_Witness ==
    /\ singleConsumer
    /\ returned = <<1, 2>>
    /\ \E t \in Tasks : pc[t] = "done"

(* The outcomes of an advance that are neither an item nor a failure to     *)
(* deliver one.                                                             *)
ResetOutcomes == {StreamRequiresReset, AsyncStreamRequiresReset}

(* C18: an advance whose await found the stream of an Open handle ended     *)
(* returns an end-of-stream outcome, which is not the outcome of an advance *)
(* after unsubscribe(); it does not panic.                                  *)
C18_EndOfStreamIsAnOutcome ==
    /\ hostRes.call = "next" => hostRes.ret # Panic
    /\ \A t \in Tasks : IsSome(taskRes[t]) => Unwrap(taskRes[t]) # Panic

(* Process p runs the take statement of an advance while another advance    *)
(* has the cursor.                                                          *)
TakesWhileAdvancing(p) ==
    /\ pc[p] = "take"
    /\ mutex = {p}
    /\ mutex' # mutex
    /\ \E q \in Procs \ {p} : pc[q] \in {"await", "insert"} /\ IsSome(held[q])

(* C19: an advance started while another advance has the cursor fails at    *)
(* once: the advancing process never holds the mutex it needs, its take     *)
(* statement ends the advance with the "Stream requires reset" error, and   *)
(* the other advance keeps the cursor to write back.                        *)
C19_AdvanceWhileAdvancingFailsFast ==
    /\ [](\A q \in Procs : pc[q] = "await" => q \notin mutex)
    /\ [][\A p \in Procs : TakesWhileAdvancing(p) =>
              /\ pc'[p] \in {"idle", "done"}
              /\ IF p = Host THEN hostRes'.ret = StreamRequiresReset
                 ELSE taskRes'[p] = Some(AsyncStreamRequiresReset)
              /\ held' = held
              /\ \A q \in Procs \ {p} : pc'[q] = pc[q]]_vars

C19_Witness ==
    /\ hostRes = [call |-> "next", ret |-> StreamRequiresReset]
    /\ ~unsubscribed
    /\ IsSome(slot)
    /\ \E t \in Tasks : pc[t] = "convert" /\ IsSome(got[t])

(* Process p runs the insert statement of an advance that got an item. *)
InsertsAfterItem(p) ==
    /\ pc[p] = "insert"
    /\ IsSome(got[p])
    /\ pc'[p] # "insert"

(* C20: an advance that got an item of any variant has written the cursor   *)
(* back when it returns: its insert statement leaves the cursor in the      *)
(* slot, and next() returns an item's outcome only from there.              *)
C20_CursorBackAfterItem ==
    [][/\ \A p \in Procs : InsertsAfterItem(p) => slot' = held[p] /\ IsSome(slot')
       /\ (hostRes' # hostRes /\ hostRes'.call = "next"
              /\ hostRes'.ret \notin ResetOutcomes \cup {KeyboardInterrupt, Panic})
            => (InsertsAfterItem(Host) /\ IsSome(slot'))]_vars

C20_Witness ==
    /\ hostRes = [call |-> "next", ret |-> PyErr("Exception", "a")]
    /\ slot = Some([pos |-> 1])
    /\ pc[Host] = "idle"

----------------------------------------------------------------------------
(* Properties of id() and of the cursor's whereabouts (specification Spec). *)

(* id() has taken the cursor and has not written it back yet. *)
IdInProgress == pc[Host] = "id_insert" /\ IsSome(held[Host])

(* C21: id() on an Open handle is an atomic read: it returns the            *)
(* SubscriberId and leaves the slot as it was, and no operation running     *)
(* beside it sees the slot empty on its account: no advance fails with      *)
(* "Stream requires reset" because an id() is in progress.                  *)
C21_IdIsAtomicRead ==
    [][/\ (IdInProgress /\ pc'[Host] = "idle") =>
              (hostRes'.call = "id" /\ hostRes'.ret.ok /\ slot' = held[Host])
       /\ \A p \in Procs \ {Host} :
              (IdInProgress /\ pc[p] = "take" /\ pc'[p] # "take") =>
                  taskRes'[p] # Some(AsyncStreamRequiresReset)]_vars

(* C23: no call on the handle panics: exists(), id(), unsubscribe(), next() *)
(* and anext() each end with a value or an error outcome, id() on an empty  *)
(* slot included.                                                           *)
C23_NoCallPanics ==
    /\ hostRes.ret # Panic
    /\ \A t \in Tasks : taskRes[t] # Some(Panic)

(* The number of places the cursor is in. *)
CursorPlaces ==
    (IF IsSome(slot) THEN 1 ELSE 0) + Cardinality({p \in Procs : IsSome(held[p])})

(* C24: the cursor is in at most one place, the slot or the local of one    *)
(* operation in flight (an advance or an id()); so whoever is about to      *)
(* write the cursor back finds the slot empty.                              *)
C24_CursorInOnePlace ==
    /\ CursorPlaces <= 1
    /\ \A p \in Procs :
           IsSome(held[p]) =>
               /\ pc[p] \in {"await", "insert", "id_insert"}
               /\ IsNone(slot)

C24_Witness ==
    /\ pc[Host] = "id_insert"
    /\ mutex = {Host}
    /\ IsSome(held[Host])
    /\ \E t \in Tasks : pc[t] = "take"

(* The slot is empty and no operation holds the cursor. *)
QuiescentEmpty == IsNone(slot) /\ \A p \in Procs : IsNone(held[p])

(* C25: once the slot is empty and nobody holds the cursor, it stays so     *)
(* whatever is called: exists() returns false and the take statement of     *)
(* every advance ends it with "Stream requires reset".                      *)
C25_EmptyAndQuiescentIsTerminal ==
    [][QuiescentEmpty =>
          /\ QuiescentEmpty'
          /\ (pc[Host] = "exists" /\ pc'[Host] = "idle") =>
                 hostRes' = [call |-> "exists", ret |-> PyOk(PyBool(FALSE))]
          /\ (pc[Host] = "take" /\ pc'[Host] # "take") =>
                 hostRes' = [call |-> "next", ret |-> StreamRequiresReset]
          /\ \A t \in Tasks :
                 (pc[t] = "take" /\ pc'[t] # "take") =>
                     taskRes'[t] = Some(AsyncStreamRequiresReset)]_vars

C25_Witness ==
    /\ QuiescentEmpty
    /\ unsubscribed
    /\ hostRes = [call |-> "exists", ret |-> PyOk(PyBool(FALSE))]
    /\ \E t \in Tasks : taskRes[t] = Some(AsyncStreamRequiresReset)

----------------------------------------------------------------------------
(* Liveness of the bridge (specification SpecLive).                         *)

(* One-shot call k sits in block_on. *)
OneShotBlocked(k) ==
    /\ cPc = "wait"
    /\ Unwrap(cFut).id = k
    /\ Unwrap(cFut).op \in OneShotOps

(* One-shot call k has returned: by its operation, or Interrupted. *)
OneShotReturned(k) ==
    /\ Len(cHist) >= k
    /\ \/ cHist[k].branch = "op" /\ IsSome(cHist[k].res) /\ cHist[k].ret # InterruptedError
       \/ cHist[k].branch = "poller" /\ cHist[k].ret = InterruptedError

(* next() sits in block_on at the await; the stream will deliver nothing. *)
NextNeverCompletes ==
    pc[Host] = "await" /\ ~streamEnds /\ Unwrap(held[Host]).pos = MaxItems

(* next() has returned Interrupted. *)
NextInterrupted ==
    pc[Host] = "idle" /\ hostRes = [call |-> "next", ret |-> KeyboardInterrupt]

(* A blocked call with a signal pending returns: Interrupted, unless its    *)
(* operation completes first.                                               *)
InterruptEndsBlockedCall ==
    /\ \A k \in 1..MaxCalls : (OneShotBlocked(k) /\ sigPending) ~> OneShotReturned(k)
    /\ (pc[Host] = "await" /\ sigPending) ~> (NextInterrupted \/ pc[Host] = "insert")
    /\ (NextNeverCompletes /\ sigPending) ~> NextInterrupted

(* The poll tick that finds the signal is the one that ends the call. *)
FirstTickReturns ==
    [][(sigPending /\ ~sigPending') =>
          \/ cPc = "wait" /\ cPc' = "idle"
          \/ pc[Host] = "await" /\ pc'[Host] = "idle"]_vars

(* A next() whose await has completed returns what it completed with. *)
CompletedNextReturnsResult ==
    /\ (pc[Host] = "insert") ~> (pc[Host] = "idle")
    /\ [][(pc[Host] = "insert" /\ pc'[Host] = "idle") =>
              /\ hostRes'.call = "next"
              /\ hostRes'.ret \notin {KeyboardInterrupt, StreamRequiresReset, Panic}]_vars

(* C22: under fair scheduling of the poller, a blocked one-shot call or     *)
(* next() for which an interrupt is raised and whose operation never        *)
(* completes returns Interrupted, at the first poll tick after the raise;   *)
(* a call whose operation completes returns the operation's result.         *)
C22_BlockedCallReturns ==
    /\ InterruptEndsBlockedCall
    /\ FirstTickReturns
    /\ CompletedNextReturnsResult

====
